---- MODULE Spec2Model ----
(***************************************************************************)
(* A model of iex_quotes_main.py: one run of the script, from reading the  *)
(* environment file to the last appended output row.  Strings that the     *)
(* code inspects character by character (operator input, ticker symbols)   *)
(* are sequences of one-character strings.  Python dicts are sequences of  *)
(* <<key, value>> pairs in insertion order.                                *)
(***************************************************************************)
EXTENDS Integers, Sequences, FiniteSets, TLC

VARIABLES
    pc,             \* position of the script
    exit_code,      \* <<>> while running, <<c>> once the process ended with status c
    exc,            \* the error that ended the run, NoExc if none
    envs,           \* dict env name -> [token, url]          (read_env_file)
    selection_num,  \* set_env: the entered index string
    input_env,      \* set_env: int(selection_num)
    selection_str,  \* set_env: the entered confirmation string
    env,            \* [token, url] returned by set_env
    csv_files,      \* glob('*.csv')
    input_csv_filename,
    tickers,        \* create_symbols(...)
    range_string,   \* '5d' or '1m'
    prompts,        \* the operator prompts answered so far, in order
    idx,            \* position of the fetch loop in tickers
    requests,       \* the URLs of the GETs issued so far, in order
    outstanding,    \* GETs issued and not yet answered
    response,       \* the last HTTP response
    payload,        \* what get_hist_prices_payload returned
    parsed,         \* history: <<symbol, parsed_payload>> of every parse, in order
    hist_prices,    \* module-level dict symbol -> date_prices
    quicken_values, \* dict symbol -> date_prices
    out_pos,        \* the output loop's next row, counted over both loops
    out_exists,     \* the output file exists
    out_lines       \* the lines of the output file

vars == <<pc, exit_code, exc, envs, selection_num, input_env, selection_str, env,
          csv_files, input_csv_filename, tickers, range_string, prompts, idx,
          requests, outstanding, response, payload, parsed, hist_prices,
          quicken_values, out_pos, out_exists, out_lines>>

(***************************************************************************)
(* Bounds of the model.                                                    *)
(***************************************************************************)
MaxEnvRows == 2     \* rows of env_file.csv
MaxSelLen == 2      \* characters of an entered number
MaxCsvFiles == 2    \* *.csv files in the working directory
MaxTickers == 2     \* cells of the symbol file
MaxQuotes == 3      \* quote objects the API serves during one run

None == [none |-> TRUE]
NoExc == [type |-> "none", msg |-> "none"]

(***************************************************************************)
(* Characters and strings.                                                 *)
(***************************************************************************)
\* "sup2" stands for U+00B2, a character for which str.isdigit() is true and
\* which int() rejects.
DecimalDigits == {"0", "1", "2", "3", "4", "5", "6", "7", "8", "9"}
DigitValue == [c \in DecimalDigits |->
                 CASE c = "0" -> 0 [] c = "1" -> 1 [] c = "2" -> 2 [] c = "3" -> 3
                   [] c = "4" -> 4 [] c = "5" -> 5 [] c = "6" -> 6 [] c = "7" -> 7
                   [] c = "8" -> 8 [] c = "9" -> 9]

\* str.isdigit() of one character
IsDigitChar(c) == c \in DecimalDigits \cup {"sup2"}

\* str.upper() / str.lower() of one character
UpperChar(c) == CASE c = "a" -> "A" [] c = "b" -> "B" [] c = "c" -> "C"
                  [] c = "t" -> "T" [] c = "y" -> "Y" [] c = "n" -> "N"
                  [] c = "e" -> "E" [] c = "s" -> "S" [] OTHER -> c
LowerChar(c) == CASE c = "A" -> "a" [] c = "B" -> "b" [] c = "C" -> "c"
                  [] c = "T" -> "t" [] c = "Y" -> "y" [] c = "N" -> "n"
                  [] c = "E" -> "e" [] c = "S" -> "s" [] OTHER -> c
Upper(s) == [k \in 1..Len(s) |-> UpperChar(s[k])]
Lower(s) == [k \in 1..Len(s) |-> LowerChar(s[k])]

\* the strings over alphabet A of at most n characters
StringsUpTo(A, n) == UNION {[1..k -> A] : k \in 0..n}

\* what the operator may type at a numeric prompt
SelChars == {"0", "1", "2", "3", "-", "a", "sup2"}
SelStrings == StringsUpTo(SelChars, MaxSelLen)
\* what the operator may type at the confirmation prompt
ConfStrings == {<<"y">>, <<"Y">>, <<"n">>, <<"N">>, <<>>, <<"y", "e", "s">>}

\* is_pos_digit: str.isdigit() is false for the empty string
is_pos_digit(digit) ==
    Len(digit) > 0 /\ \A k \in 1..Len(digit) : IsDigitChar(digit[k])

\* the value of a non-empty string of decimal digits
RECURSIVE DecimalValue(_)
DecimalValue(s) ==
    IF Len(s) = 0 THEN 0
    ELSE 10 * DecimalValue(SubSeq(s, 1, Len(s) - 1)) + DigitValue[s[Len(s)]]

\* int(s) succeeds on an optional sign followed by decimal digits
IntDigits(s) == IF Len(s) > 0 /\ s[1] = "-" THEN Tail(s) ELSE s
IntOk(s) ==
    /\ Len(IntDigits(s)) > 0
    /\ \A k \in 1..Len(IntDigits(s)) : IntDigits(s)[k] \in DecimalDigits
IntValue(s) ==
    IF Len(s) > 0 /\ s[1] = "-" THEN 0 - DecimalValue(Tail(s)) ELSE DecimalValue(s)

\* a confirm_selection that compares without upper()
confirm_selection_case_sensitive(selection) == selection = <<"Y">>

\* confirm_selection
confirm_selection(selection) == Upper(selection) = <<"Y">>

(***************************************************************************)
(* Python dicts: insertion-ordered, assignment to a present key keeps the  *)
(* key's position.                                                         *)
(***************************************************************************)
DictKeys(d) == {d[k][1] : k \in 1..Len(d)}
DictGet(d, key) == d[CHOOSE k \in 1..Len(d) : d[k][1] = key][2]

\* a dict whose assignment keeps the value of a present key
DictSetKeepFirst(d, key, value) ==
    IF key \in DictKeys(d) THEN d ELSE Append(d, <<key, value>>)

DictSet(d, key, value) ==
    IF key \in DictKeys(d)
    THEN [k \in 1..Len(d) |-> IF d[k][1] = key THEN <<key, value>> ELSE d[k]]
    ELSE Append(d, <<key, value>>)

(***************************************************************************)
(* Process exit.                                                           *)
(***************************************************************************)
\* sys.exit(1) in exception_exit
exception_exit_code == 1
\* the interpreter's status when an exception reaches the top level
unhandled_exit_code == 1
\* the status when the script runs to its end
normal_exit_code == 0

\* an exception_exit that calls sys.exit() without a status
ExceptionExitStatusZero(e) ==
    /\ exc' = e
    /\ pc' = "exit"
    /\ exit_code' = <<normal_exit_code>>

\* the run ends through exception_exit(...) after error e
ExceptionExit(e) ==
    /\ exc' = e
    /\ pc' = "exit"
    /\ exit_code' = <<exception_exit_code>>

\* error e is raised where no handler encloses the statement
Unhandled(e) ==
    /\ exc' = e
    /\ pc' = "exit"
    /\ exit_code' = <<unhandled_exit_code>>

Error(type, msg) == [type |-> type, msg |-> msg]

(***************************************************************************)
(* read_env_file and the handlers around it.                               *)
(***************************************************************************)
EnvRows == {<<"dev", <<"t1", "u1">>>>, <<"prod", <<"t2", "u2">>>>}
EnvFiles == UNION {[1..k -> EnvRows] : k \in 0..MaxEnvRows}

RECURSIVE read_env_file(_, _)
read_env_file(rows, items) ==
    IF Len(rows) = 0 THEN items
    ELSE read_env_file(Tail(rows), DictSet(items, Head(rows)[1], Head(rows)[2]))

ReadEnv ==
    /\ pc = "read_env"
    /\ \/ \E file \in EnvFiles :
            /\ envs' = read_env_file(file, <<>>)
            /\ pc' = "set_env_input"
            /\ UNCHANGED <<exit_code, exc>>
       \/ /\ ExceptionExit(Error("FileNotFoundError", "env_file"))
          /\ UNCHANGED envs
       \/ /\ ExceptionExit(Error("IndexError", "env_file"))
          /\ UNCHANGED envs
    /\ UNCHANGED <<selection_num, input_env, selection_str, env, csv_files,
                   input_csv_filename, tickers, range_string, prompts, idx,
                   requests, outstanding, response, payload, parsed, hist_prices,
                   quicken_values, out_pos, out_exists, out_lines>>

(***************************************************************************)
(* set_env.                                                                *)
(***************************************************************************)
\* env_options / env: the entries of envs indexed 0..N-1 in iteration order
env_options(e) == [i \in 0..(Len(e) - 1) |-> e[i + 1]]

\* input('Choose the environment to set (by number):')
SetEnvInput ==
    /\ pc = "set_env_input"
    /\ \E s \in SelStrings : selection_num' = s
    /\ prompts' = Append(prompts, "env_index")
    /\ pc' = "set_env_validate"
    /\ UNCHANGED <<exit_code, exc, envs, input_env, selection_str, env, csv_files,
                   input_csv_filename, tickers, range_string, idx, requests,
                   outstanding, response, payload, parsed, hist_prices,
                   quicken_values, out_pos, out_exists, out_lines>>

\* the checks of the entered index
SetEnvValidate ==
    /\ pc = "set_env_validate"
    /\ IF ~is_pos_digit(selection_num)
       THEN /\ ExceptionExit(Error("TypeError", "not a valid number"))
            /\ UNCHANGED input_env
       ELSE IF ~IntOk(selection_num)
       THEN /\ ExceptionExit(Error("ValueError", "invalid literal for int()"))
            /\ UNCHANGED input_env
       ELSE IF IntValue(selection_num) \notin 0..(Len(envs) - 1)
       THEN /\ ExceptionExit(Error("ValueError", "out of range"))
            /\ input_env' = IntValue(selection_num)
       ELSE /\ input_env' = IntValue(selection_num)
            /\ pc' = "set_env_confirm_input"
            /\ UNCHANGED <<exit_code, exc>>
    /\ UNCHANGED <<envs, selection_num, selection_str, env, csv_files,
                   input_csv_filename, tickers, range_string, prompts, idx,
                   requests, outstanding, response, payload, parsed, hist_prices,
                   quicken_values, out_pos, out_exists, out_lines>>

\* input('Confirm your environment selection (y/n):')
SetEnvConfirmInput ==
    /\ pc = "set_env_confirm_input"
    /\ \E s \in ConfStrings : selection_str' = s
    /\ prompts' = Append(prompts, "confirmation")
    /\ pc' = "set_env_confirm"
    /\ UNCHANGED <<exit_code, exc, envs, selection_num, input_env, env, csv_files,
                   input_csv_filename, tickers, range_string, idx, requests,
                   outstanding, response, payload, parsed, hist_prices,
                   quicken_values, out_pos, out_exists, out_lines>>

\* a set_env that returns the first entry whatever the index
set_env_result_first(e, i) == <<env_options(e)[0][2][1], env_options(e)[0][2][2]>>

\* the pair set_env returns for index i
set_env_result(e, i) == <<env_options(e)[i][2][1], env_options(e)[i][2][2]>>

\* the confirmation check and the return
SetEnvConfirm ==
    /\ pc = "set_env_confirm"
    /\ IF ~confirm_selection(selection_str)
       THEN /\ ExceptionExit(Error("ValueError", "not confirmed"))
            /\ UNCHANGED env
       ELSE /\ env' = set_env_result(envs, input_env)
            /\ pc' = "list_csv"
            /\ UNCHANGED <<exit_code, exc>>
    /\ UNCHANGED <<envs, selection_num, input_env, selection_str, csv_files,
                   input_csv_filename, tickers, range_string, prompts, idx,
                   requests, outstanding, response, payload, parsed, hist_prices,
                   quicken_values, out_pos, out_exists, out_lines>>

(***************************************************************************)
(* The input file prompt, create_symbols and the date range prompt.        *)
(***************************************************************************)
\* the name of the i-th *.csv file that glob finds (1-based)
CsvName(i) == <<"csv", i>>

\* csv_file_options: the names indexed 0..n-1
csv_file_options(files) == [i \in 0..(Len(files) - 1) |-> files[i + 1]]

\* glob, the file number prompt and its check.  env_file.csv is a *.csv file
\* of the directory, so glob finds at least one.  set_env's locals are gone,
\* and the script does not read envs again: the model forgets them.
ChooseFile ==
    /\ pc = "list_csv"
    /\ \E n \in 1..MaxCsvFiles, s \in SelStrings :
          /\ csv_files' = [i \in 1..n |-> CsvName(i)]
          /\ IF ~IntOk(s)
             THEN /\ Unhandled(Error("ValueError", "file number: invalid literal for int()"))
                  /\ UNCHANGED input_csv_filename
             ELSE IF IntValue(s) >= 0 /\ IntValue(s) < n
             THEN /\ input_csv_filename' = csv_file_options(csv_files')[IntValue(s)]
                  /\ pc' = "create_symbols"
                  /\ UNCHANGED <<exit_code, exc>>
             ELSE /\ ExceptionExit(Error("SystemExit", "not a valid file number"))
                  /\ UNCHANGED input_csv_filename
    /\ prompts' = Append(prompts, "file_index")
    /\ selection_num' = None
    /\ input_env' = None
    /\ selection_str' = None
    /\ envs' = <<>>
    /\ UNCHANGED <<env, tickers, range_string, idx, requests, outstanding,
                   response, payload, parsed, hist_prices, quicken_values, out_pos,
                   out_exists, out_lines>>

\* ticker symbols as they may stand in the symbol file
Symbols == {<<"A", "b">>, <<"b", "-", "C", "t">>}
SymbolRows == StringsUpTo(Symbols, MaxTickers)

RECURSIVE FlattenRows(_)
FlattenRows(rows) ==
    IF Len(rows) = 0 THEN <<>> ELSE Head(rows) \o FlattenRows(Tail(rows))

\* the contents a symbol file may have: rows of cells
SymbolFiles ==
    {f \in UNION {[1..k -> SymbolRows] : k \in 0..MaxTickers} : Len(FlattenRows(f)) <= MaxTickers}

\* create_symbols: every cell of every row, in order
create_symbols(rows) == FlattenRows(rows)

\* a script whose fetch loop stands before the date range prompt
after_create_symbols_fetch == "fetch"

\* the statement that follows the call of create_symbols
after_create_symbols == "choose_range"

\* The script reads neither csv_files nor input_csv_filename after this call: the
\* model forgets them.  idx is the position of the later loop over tickers.
CreateSymbols ==
    /\ pc = "create_symbols"
    /\ csv_files' = <<>>
    /\ input_csv_filename' = <<>>
    /\ idx' = 1
    /\ \/ \E file \in SymbolFiles :
            /\ tickers' = create_symbols(file)
            /\ pc' = after_create_symbols
            /\ UNCHANGED <<exit_code, exc>>
       \/ /\ ExceptionExit(Error("FileNotFoundError", "symbol file"))
          /\ UNCHANGED tickers
       \/ /\ ExceptionExit(Error("OSError", "symbol file"))
          /\ UNCHANGED tickers
    /\ UNCHANGED <<envs, selection_num, input_env, selection_str, env,
                   range_string, prompts, requests,
                   outstanding, response, payload, parsed, hist_prices,
                   quicken_values, out_pos, out_exists, out_lines>>

\* the range string of a date range choice, empty if the choice is not offered
hist_price_range(number) ==
    IF number = 1 THEN <<"5", "d">>
    ELSE IF number = 2 THEN <<"1", "m">>
    ELSE <<>>

ChooseRange ==
    /\ pc = "choose_range"
    /\ \E s \in SelStrings :
          IF ~IntOk(s)
          THEN /\ Unhandled(Error("ValueError", "date range: invalid literal for int()"))
               /\ UNCHANGED range_string
          ELSE IF hist_price_range(IntValue(s)) = <<>>
          THEN /\ ExceptionExit(Error("SystemExit", "not a valid date range selection"))
               /\ UNCHANGED range_string
          ELSE /\ range_string' = hist_price_range(IntValue(s))
               /\ pc' = "fetch"
               /\ UNCHANGED <<exit_code, exc>>
    /\ prompts' = Append(prompts, "date_range")
    /\ UNCHANGED <<envs, selection_num, input_env, selection_str, env, csv_files,
                   input_csv_filename, tickers, idx, requests, outstanding, response,
                   payload, parsed, hist_prices, quicken_values, out_pos,
                   out_exists, out_lines>>

(***************************************************************************)
(* get_hist_prices_payload and parse_hist_prices_payload.                  *)
(***************************************************************************)
\* the URL of one request, part by part
hist_prices_url(range, ticker_symbol, token, base_url) ==
    <<base_url, Lower(ticker_symbol), "/chart/", Lower(range), "?token=" , token,
      "&chartCloseOnly=TRUE">>

\* dates as the API may send them: year, month and day digits and the separator
Date(y, m, d, sep) == [y |-> y, m |-> m, d |-> d, sep |-> sep]
Jan5 == Date(<<"2", "0", "2", "3">>, <<"0", "1">>, <<"0", "5">>, "-")
Jan6 == Date(<<"2", "0", "2", "3">>, <<"0", "1">>, <<"0", "6">>, "-")
Jan5Slashes == Date(<<"2", "0", "2", "3">>, <<"0", "1">>, <<"0", "5">>, "/")
\* the quote objects of a response: two prices for one date, a second date and
\* a date that strptime rejects
Quotes == {[date |-> Jan5, close |-> 9], [date |-> Jan5, close |-> 150],
           [date |-> Jan6, close |-> 9], [date |-> Jan5Slashes, close |-> 9]}

\* a response body that is no JSON text
NotJson == [html |-> TRUE]

\* the JSON texts of arrays of at most n quote objects
JsonArrays(n) == {[json |-> a] : a \in UNION {[1..k -> Quotes] : k \in 0..n}}

RECURSIVE QuotesServed(_)
QuotesServed(log) ==
    IF Len(log) = 0 THEN 0 ELSE Len(Head(log)[2]) + QuotesServed(Tail(log))

StatusOk == 200
StatusCodes == {StatusOk, 404}

\* a loop that leaves out the last element
fetch_loop_stops_early(i, symbols) == i < Len(symbols)

\* for i in tickers: there is a next element
fetch_loop_has_next(i, symbols) == i <= Len(symbols)

\* requests.get(url) is called
FetchSend ==
    /\ pc = "fetch"
    /\ fetch_loop_has_next(idx, tickers)
    /\ requests' = Append(requests,
                          hist_prices_url(range_string, tickers[idx], env[1], env[2]))
    /\ outstanding' = outstanding + 1
    /\ pc' = "await"
    /\ UNCHANGED <<exit_code, exc, envs, selection_num, input_env, selection_str, env,
                   csv_files, input_csv_filename, tickers, range_string, prompts, idx,
                   response, payload, parsed, hist_prices, quicken_values, out_pos,
                   out_exists, out_lines>>

\* a get_hist_prices_payload that returns the body whatever the status
hist_prices_payload_unchecked(r) == r.text

\* a get_hist_prices_payload that answers a failed request with an empty array
hist_prices_payload_empty(r) ==
    IF r.status_code = StatusOk THEN r.text ELSE [json |-> <<>>]

\* what get_hist_prices_payload returns for a response
hist_prices_payload(r) == IF r.status_code = StatusOk THEN r.text ELSE None

\* requests.get(url) returns or raises, and get_hist_prices_payload returns
FetchReceive ==
    /\ pc = "await"
    /\ outstanding' = outstanding - 1
    /\ \/ \E code \in StatusCodes,
             text \in JsonArrays(MaxQuotes - QuotesServed(parsed)) \cup {NotJson} :
            /\ code # StatusOk => text = NotJson
            /\ response' = [status_code |-> code, text |-> text]
            /\ payload' = hist_prices_payload(response')
            /\ pc' = "parse"
            /\ UNCHANGED <<exit_code, exc>>
       \/ /\ Unhandled(Error("ConnectionError", "requests.get"))
          /\ UNCHANGED <<response, payload>>
    /\ UNCHANGED <<envs, selection_num, input_env, selection_str, env, csv_files,
                   input_csv_filename, tickers, range_string, prompts, idx, requests,
                   parsed, hist_prices, quicken_values, out_pos, out_exists,
                   out_lines>>

\* the loop of parse_hist_prices_payload over the decoded array
RECURSIVE date_prices_of(_, _)
date_prices_of(parsed_payload, date_prices) ==
    IF Len(parsed_payload) = 0 THEN date_prices
    ELSE date_prices_of(Tail(parsed_payload),
                        DictSet(date_prices, Head(parsed_payload).date,
                                Head(parsed_payload).close))

\* json.loads of a JSON text: the decoded array
json_loads(text) == text.json

parse_hist_prices_payload(parsed_payload) == date_prices_of(parsed_payload, <<>>)

\* a loop that skips every other element
next_index_skipping(i) == i + 2

\* the index of the fetch loop after one iteration
next_index(i) == i + 1

\* parse_hist_prices_payload(payload) and the two assignments of the loop body
Parse ==
    /\ pc = "parse"
    /\ IF payload = None
       THEN /\ Unhandled(Error("TypeError", "json.loads: not a str"))
            /\ UNCHANGED <<parsed, hist_prices, quicken_values, idx>>
       ELSE IF payload = NotJson
       THEN /\ Unhandled(Error("JSONDecodeError", "json.loads"))
            /\ UNCHANGED <<parsed, hist_prices, quicken_values, idx>>
       ELSE /\ parsed' = Append(parsed, <<tickers[idx], json_loads(payload)>>)
            /\ hist_prices' = DictSet(hist_prices, tickers[idx],
                                      parse_hist_prices_payload(json_loads(payload)))
            /\ quicken_values' = DictSet(quicken_values, tickers[idx],
                                         DictGet(hist_prices', tickers[idx]))
            /\ idx' = next_index(idx)
            /\ pc' = "fetch"
            /\ UNCHANGED <<exit_code, exc>>
    /\ UNCHANGED <<envs, selection_num, input_env, selection_str, env, csv_files,
                   input_csv_filename, tickers, range_string, prompts, requests,
                   outstanding, response, payload, out_pos, out_exists, out_lines>>

\* the fetch loop is over: the output file name is made
FetchDone ==
    /\ pc = "fetch"
    /\ ~fetch_loop_has_next(idx, tickers)
    /\ out_pos' = 1
    /\ pc' = "output"
    /\ UNCHANGED <<exit_code, exc, envs, selection_num, input_env, selection_str, env,
                   csv_files, input_csv_filename, tickers, range_string, prompts, idx,
                   requests, outstanding, response, payload, parsed, hist_prices,
                   quicken_values, out_exists, out_lines>>

(***************************************************************************)
(* The formatters and the output loop.                                     *)
(***************************************************************************)
AllDecimal(s) == \A k \in 1..Len(s) : s[k] \in DecimalDigits

\* strptime(date, '%Y-%m-%d') accepts the date
DateOk(date) ==
    /\ date.sep = "-"
    /\ Len(date.y) = 4 /\ Len(date.m) = 2 /\ Len(date.d) = 2
    /\ AllDecimal(date.y) /\ AllDecimal(date.m) /\ AllDecimal(date.d)
    /\ DecimalValue(date.m) \in 1..12
    /\ DecimalValue(date.d) \in 1..31

\* strftime('%m/%d/%y')
format_date(date) == <<date.m, "/", date.d, "/", SubSeq(date.y, 3, 4)>>

\* re.match('.+-ct$', ticker, re.IGNORECASE)
MatchesCt(ticker) ==
    /\ Len(ticker) >= 4
    /\ Lower(SubSeq(ticker, Len(ticker) - 2, Len(ticker))) = <<"-", "c", "t">>

format_ticker(ticker) ==
    IF MatchesCt(ticker) THEN Upper(SubSeq(ticker, 1, Len(ticker) - 3))
    ELSE Upper(ticker)

\* str(n) of an integer n >= 0
DigitChar(n) == CHOOSE c \in DecimalDigits : DigitValue[c] = n
RECURSIVE str(_)
str(n) == IF n < 10 THEN <<DigitChar(n)>> ELSE Append(str(n \div 10), DigitChar(n % 10))

output_line(ticker, date, price) ==
    <<format_ticker(ticker), ",", str(price), ",", format_date(date)>>

\* the rows of one ticker, in the order of its dict
ticker_rows(ticker, date_prices) ==
    [k \in 1..Len(date_prices) |-> <<ticker, date_prices[k][1], date_prices[k][2]>>]

\* the rows the two nested loops visit, in order
RECURSIVE output_rows(_)
output_rows(values) ==
    IF Len(values) = 0 THEN <<>>
    ELSE ticker_rows(Head(values)[1], Head(values)[2]) \o output_rows(Tail(values))

\* open(output_csv_filename, 'w') and write: the file holds the one line
truncate_and_write_line(lines, line) == <<line>>

\* open(output_csv_filename, 'a') and write: the file after one more line
append_line(lines, line) == Append(lines, line)

\* one iteration of the inner loop
WriteRow ==
    /\ pc = "output"
    /\ out_pos <= Len(output_rows(quicken_values))
    /\ LET row == output_rows(quicken_values)[out_pos] IN
       IF ~DateOk(row[2])
       THEN /\ Unhandled(Error("ValueError", "strptime: time data does not match format"))
            /\ UNCHANGED <<out_pos, out_exists, out_lines>>
       ELSE \/ /\ out_lines' = append_line(out_lines, output_line(row[1], row[2], row[3]))
               /\ out_exists' = TRUE
               /\ out_pos' = out_pos + 1
               /\ UNCHANGED <<pc, exit_code, exc>>
            \/ /\ Unhandled(Error("OSError", "open or write of the output file"))
               /\ UNCHANGED <<out_pos, out_exists, out_lines>>
    /\ UNCHANGED <<envs, selection_num, input_env, selection_str, env, csv_files,
                   input_csv_filename, tickers, range_string, prompts, idx, requests,
                   outstanding, response, payload, parsed, hist_prices,
                   quicken_values>>

\* both loops are over: os.system("pause") and the end of the script
Finish ==
    /\ pc = "output"
    /\ out_pos > Len(output_rows(quicken_values))
    /\ pc' = "done"
    /\ exit_code' = <<normal_exit_code>>
    /\ UNCHANGED <<exc, envs, selection_num, input_env, selection_str, env, csv_files,
                   input_csv_filename, tickers, range_string, prompts, idx, requests,
                   outstanding, response, payload, parsed, hist_prices,
                   quicken_values, out_pos, out_exists, out_lines>>

(***************************************************************************)
(* The run.                                                                *)
(***************************************************************************)
Init ==
    /\ pc = "read_env"
    /\ exit_code = <<>>
    /\ exc = NoExc
    /\ envs = <<>>
    /\ selection_num = None
    /\ input_env = None
    /\ selection_str = None
    /\ env = <<>>
    /\ csv_files = <<>>
    /\ input_csv_filename = <<>>
    /\ tickers = <<>>
    /\ range_string = <<>>
    /\ prompts = <<>>
    /\ idx = 0
    /\ requests = <<>>
    /\ outstanding = 0
    /\ response = None
    /\ payload = None
    /\ parsed = <<>>
    /\ hist_prices = <<>>
    /\ quicken_values = <<>>
    /\ out_pos = 0
    /\ out_exists = FALSE
    /\ out_lines = <<>>

Next ==
    \/ ReadEnv
    \/ SetEnvInput
    \/ SetEnvValidate
    \/ SetEnvConfirmInput
    \/ SetEnvConfirm
    \/ ChooseFile
    \/ CreateSymbols
    \/ ChooseRange
    \/ FetchSend
    \/ FetchReceive
    \/ Parse
    \/ FetchDone
    \/ WriteRow
    \/ Finish

Spec == Init /\ [][Next]_vars

(***************************************************************************)
(* Properties of set_env.                                                  *)
(***************************************************************************)
Affirmative == {<<"y">>, <<"Y">>}

\* s is a non-empty string of decimal digits
DecimalString(s) == Len(s) > 0 /\ \A k \in 1..Len(s) : s[k] \in DecimalDigits

\* s is empty or holds a character that is no digit at all
HasNonDigit(s) == Len(s) = 0 \/ \E k \in 1..Len(s) : s[k] \notin DecimalDigits \cup {"sup2"}

\* the [token, url] pair of the j-th entry of the mapping (1-based)
EntryPair(j) == <<envs[j][2][1], envs[j][2][2]>>

SetEnvErrors ==
    {"not a valid number", "invalid literal for int()", "out of range", "not confirmed"}
SetEnvFailed == pc = "exit" /\ exc.msg \in SetEnvErrors

\* C1: for a mapping of N >= 1 entries and an entered index of decimal digits
\* with value i in [0, N), set_env accepts the index, and on the confirmation
\* 'y' or 'Y' it returns the [token, url] pair of the i-th entry in iteration
\* order and the pair of no other entry.
C1_SetEnvReturnsIndexedEntry ==
    [][/\ (/\ pc = "set_env_validate"
           /\ DecimalString(selection_num)
           /\ DecimalValue(selection_num) < Len(envs))
          => (pc' = "set_env_confirm_input" /\ exc' = NoExc)
       /\ (pc = "set_env_confirm" /\ selection_str \in Affirmative)
          => /\ pc' = "list_csv"
             /\ exc' = NoExc
             /\ env' = EntryPair(DecimalValue(selection_num) + 1)
             /\ \A j \in 1..Len(envs) :
                   j # DecimalValue(selection_num) + 1 => env' # EntryPair(j)]_vars

\* C1 witness: the second of two entries was chosen as "01" and returned
C1_Witness ==
    /\ pc = "list_csv"
    /\ Len(envs) = 2
    /\ selection_num = <<"0", "1">>
    /\ selection_str = <<"y">>
    /\ env = <<envs[2][2][1], envs[2][2][2]>>

\* C2 as stated: the three conditions are signalled with three error kinds that
\* the caller can tell apart (invalid input as TypeError, out of range as
\* ValueError, not confirmed as neither of them), and no pair is returned.
C2_ThreeDistinctKinds ==
    SetEnvFailed =>
        /\ env = <<>>
        /\ IF ~DecimalString(selection_num) THEN exc.type = "TypeError"
           ELSE IF DecimalValue(selection_num) >= Len(envs) THEN exc.type = "ValueError"
           ELSE /\ selection_str \notin Affirmative
                /\ exc.type \notin {"TypeError", "ValueError"}

\* C2 amended: set_env returns no pair and raises TypeError for an index that is
\* empty or holds a non-digit, ValueError for an index of decimal digits outside
\* [0, N) and ValueError for a confirmation other than 'y' or 'Y' (ValueError
\* too, from int(), for digits that are not decimal); the last two conditions
\* differ only in the message.  No such input gets past the checks.
C2_SetEnvErrors ==
    /\ SetEnvFailed =>
          /\ env = <<>>
          /\ IF HasNonDigit(selection_num)
             THEN exc = Error("TypeError", "not a valid number")
             ELSE IF ~DecimalString(selection_num)
             THEN exc = Error("ValueError", "invalid literal for int()")
             ELSE IF DecimalValue(selection_num) >= Len(envs)
             THEN exc = Error("ValueError", "out of range")
             ELSE /\ selection_str \notin Affirmative
                  /\ exc = Error("ValueError", "not confirmed")
    /\ pc \in {"set_env_confirm_input", "set_env_confirm", "list_csv"} =>
          /\ DecimalString(selection_num)
          /\ DecimalValue(selection_num) < Len(envs)
          /\ exc = NoExc
    /\ pc = "list_csv" => selection_str \in Affirmative

\* C2 witness: a valid index was entered and the confirmation was 'n'
C2_Witness ==
    /\ SetEnvFailed
    /\ exc = Error("ValueError", "not confirmed")
    /\ selection_num = <<"0">>
    /\ selection_str = <<"n">>

(***************************************************************************)
(* Properties of the whole run.                                            *)
(***************************************************************************)
\* the fatal error paths, by the message of the error
FileErrors == {"env_file", "symbol file"}
PromptErrors ==
    SetEnvErrors \cup {"file number: invalid literal for int()", "not a valid file number",
                       "date range: invalid literal for int()",
                       "not a valid date range selection"}
FetchErrors == {"requests.get", "json.loads: not a str", "json.loads"}
OutputErrors == {"strptime: time data does not match format",
                 "open or write of the output file"}
FatalErrors == FileErrors \cup PromptErrors \cup FetchErrors \cup OutputErrors

\* C3: a run ends with exit code 0 exactly when it completes normally (both
\* loops ran to their end and no error occurred), and with exit code 1 on every
\* fatal error path.
C3_ExitCodes ==
    /\ exit_code \in {<<>>, <<0>>, <<1>>}
    /\ exit_code = <<0>> <=> pc = "done"
    /\ pc = "done" => /\ exc = NoExc
                      /\ Len(parsed) = Len(tickers)
                      /\ Len(out_lines) = Len(output_rows(quicken_values))
    /\ exit_code = <<1>> <=> pc = "exit"
    /\ pc = "exit" <=> exc # NoExc
    /\ exc # NoExc => exc.msg \in FatalErrors

\* C3 witness: an exception nobody catches ended the run with status 1
C3_Witness ==
    /\ pc = "exit"
    /\ exc = Error("ConnectionError", "requests.get")
    /\ exit_code = <<1>>

AllPrompts == <<"env_index", "confirmation", "file_index", "date_range">>

\* C4: whenever an HTTP request has been issued, the four prompts were answered
\* before it, in order, and each answer was accepted; a run that ended at a
\* prompt, or before one was reached, has issued no request.
C4_PromptsBeforeRequests ==
    /\ (Len(requests) > 0 \/ outstanding > 0 \/ pc \in {"await", "parse"}) =>
          /\ prompts = AllPrompts
          /\ env # <<>>
          /\ range_string \in {<<"5", "d">>, <<"1", "m">>}
          /\ exc.msg \notin PromptErrors
    /\ (prompts # AllPrompts \/ exc.msg \in PromptErrors \cup FileErrors) =>
          /\ requests = <<>>
          /\ outstanding = 0

\* C4 witness: the first request is out, after the four prompts
C4_Witness ==
    /\ pc = "await"
    /\ Len(requests) = 1
    /\ prompts = AllPrompts

\* the run failed in the output loop
OutputFailed == pc = "exit" /\ exc.msg \in OutputErrors

\* the line of the k-th row the output loop visits
RowLine(k) ==
    LET row == output_rows(quicken_values)[k] IN output_line(row[1], row[2], row[3])

\* C5: during the output loop and after it, also when the loop failed at a row,
\* the output file holds exactly the lines of the rows processed before, in
\* order: no failure removes or alters a line written earlier.
C5_EarlierRowsKept ==
    (pc \in {"output", "done"} \/ OutputFailed) =>
        /\ Len(out_lines) = out_pos - 1
        /\ \A k \in 1..Len(out_lines) : out_lines[k] = RowLine(k)
        /\ OutputFailed => out_pos <= Len(output_rows(quicken_values))

\* C5 witness: the date of the second row was rejected after the first row
\* had been written
C5_Witness ==
    /\ OutputFailed
    /\ exc.type = "ValueError"
    /\ out_pos = 2
    /\ Len(out_lines) = 1

\* the number of output lines equal to line
LineCount(line) == Cardinality({n \in 1..Len(out_lines) : out_lines[n] = line})

\* C6 as stated: after a run that completed, every (symbol, date, price)
\* triple that was fetched and parsed has exactly one line in the output file.
C6_OneLinePerParsedTriple ==
    pc = "done" =>
        \A k \in 1..Len(parsed) : \A q \in 1..Len(parsed[k][2]) :
            LineCount(output_line(parsed[k][1], parsed[k][2][q].date,
                                  parsed[k][2][q].close)) = 1

\* the position in parsed of the last response for symbol s
LastParse(s) == CHOOSE k \in 1..Len(parsed) :
                    parsed[k][1] = s /\ \A j \in (k + 1)..Len(parsed) : parsed[j][1] # s
\* the price of the last quote of array a that carries date d
LastClose(a, d) == a[CHOOSE q \in 1..Len(a) :
                        a[q].date = d /\ \A j \in (q + 1)..Len(a) : a[j].date # d].close
\* the dates of array a
DatesOf(a) == {a[q].date : q \in 1..Len(a)}
\* the lines that carry symbol s and date d, whatever the price
LinesOf(s, d) == {n \in 1..Len(out_lines) :
                     /\ out_lines[n][1] = format_ticker(s)
                     /\ out_lines[n][5] = format_date(d)}
RECURSIVE SumOver(_, _)
SumOver(S, f) ==
    IF S = {} THEN 0
    ELSE LET x == CHOOSE y \in S : TRUE IN f[x] + SumOver(S \ {x}, f)

\* C6 amended: after a run that completed, the output file holds exactly one
\* line per distinct symbol and per distinct date of the last response fetched
\* for that symbol, with the price of the last quote of that date; the triples
\* of an earlier response for a repeated symbol and the earlier quotes of a
\* repeated date have no line.
C6_OneLinePerSymbolAndDate ==
    pc = "done" =>
        LET syms == {tickers[k] : k \in 1..Len(tickers)} IN
        /\ \A s \in syms :
              LET a == parsed[LastParse(s)][2] IN
              \A d \in DatesOf(a) :
                 /\ Cardinality(LinesOf(s, d)) = 1
                 /\ LineCount(output_line(s, d, LastClose(a, d))) = 1
        /\ Len(out_lines) =
              SumOver(syms, [s \in syms |-> Cardinality(DatesOf(parsed[LastParse(s)][2]))])

\* C6 witness: a symbol listed twice, whose first response repeats a date, and
\* a run that completed with a line written
C6_Witness ==
    /\ pc = "done"
    /\ Len(tickers) = 2
    /\ tickers[1] = tickers[2]
    /\ Len(parsed[1][2]) = 2
    /\ parsed[1][2][1].date = parsed[1][2][2].date
    /\ Len(out_lines) = 1

\* the last response carries a status other than 200
Non200 == response # None /\ response.status_code # StatusOk

\* C7: after a non-200 answer get_hist_prices_payload has returned the absent
\* value, the parse step of that symbol is the next and last step of the run,
\* which ends there with an error; no later symbol is requested and the run
\* does not complete.
C7_Non200FailsAtParse ==
    Non200 =>
        /\ payload = None
        /\ pc \in {"parse", "exit"}
        /\ Len(requests) = idx
        /\ requests[idx][2] = Lower(tickers[idx])
        /\ pc = "exit" => /\ exc = Error("TypeError", "json.loads: not a str")
                          /\ exit_code = <<1>>

\* C7 witness: the first of two symbols was answered with a non-200 status
\* and the run ended
C7_Witness ==
    /\ Non200
    /\ pc = "exit"
    /\ idx = 1
    /\ Len(tickers) = 2

\* C8 as stated: a non-200 answer does not end the run; the symbol is dropped
\* and the run goes on.
C8_Non200Dropped == Non200 => (pc # "exit" /\ exc = NoExc)

\* C8 amended: a non-200 answer produces no record for the symbol and the run
\* does not go on: the records are those of the earlier symbols only, no row
\* of any symbol is written and no output file is made.
C8_Non200NoRecordNoRows ==
    Non200 =>
        /\ pc \notin {"fetch", "await", "output", "done"}
        /\ Len(parsed) = idx - 1
        /\ DictKeys(quicken_values) = {tickers[k] : k \in 1..(idx - 1)}
        /\ DictKeys(hist_prices) = DictKeys(quicken_values)
        /\ out_lines = <<>>
        /\ ~out_exists

\* C8 witness: the second symbol was answered with a non-200 status after the
\* first had been parsed with a quote, and the run ended without output
C8_Witness ==
    /\ Non200
    /\ pc = "exit"
    /\ idx = 2
    /\ tickers[1] # tickers[2]
    /\ Len(parsed[1][2]) > 0
    /\ out_lines = <<>>

\* C9: the requests issued so far are those of the first symbols of the list,
\* one per element and in list order; at most one request is outstanding; the
\* request for an element is issued only when every earlier element has been
\* answered and parsed; when the loop is over every element has had its one
\* request.
C9_OneRequestPerElementInOrder ==
    /\ outstanding \in {0, 1}
    /\ Len(requests) <= Len(tickers)
    /\ \A k \in 1..Len(requests) :
          requests[k] = <<env[2], Lower(tickers[k]), "/chart/", range_string,
                          "?token=", env[1], "&chartCloseOnly=TRUE">>
    /\ Len(requests) <= Len(parsed) + 1
    /\ \A k \in 1..Len(parsed) : parsed[k][1] = tickers[k]
    /\ outstanding = 1 <=> pc = "await"
    /\ pc = "await" => Len(requests) = Len(parsed) + 1
    /\ pc \in {"output", "done"} => Len(requests) = Len(tickers)

\* C9 witness: the second request for a symbol listed twice is outstanding
C9_Witness ==
    /\ pc = "await"
    /\ outstanding = 1
    /\ Len(requests) = 2
    /\ tickers[1] = tickers[2]
    /\ Len(parsed) = 1

\* the run failed in the fetch loop
FetchFailed == pc = "exit" /\ exc.msg \in FetchErrors

\* C10: the output file exists or holds a line only when every symbol of the
\* list has been fetched and parsed; a run that failed in the fetch loop ends
\* with no line written and no output file.
C10_NoOutputBeforeAllParsed ==
    /\ (out_exists \/ out_lines # <<>>) =>
          /\ Len(parsed) = Len(tickers)
          /\ ~FetchFailed
    /\ FetchFailed =>
          /\ out_lines = <<>>
          /\ ~out_exists

\* C10 witness: the second symbol's body was no JSON after the first symbol
\* had been parsed with a quote
C10_Witness ==
    /\ FetchFailed
    /\ exc.type = "JSONDecodeError"
    /\ Len(parsed) = 1
    /\ Len(parsed[1][2]) > 0
    /\ ~out_exists

====
